---- MODULE Spec2Model ----
(***************************************************************************)
(* Model of the Variable Save Service (savesvc.c).                         *)
(*                                                                         *)
(* The daemon waits on a signalfd for a MODIFIED notification on a trigger *)
(* variable; on a match it writes every dirty variable of the variable     *)
(* server to "<filename>..tmp" and renames that file onto <filename>.      *)
(*                                                                         *)
(* Files are sequences of tokens (a token stands for a run of bytes), a    *)
(* write puts tokens at the descriptor's offset and may be short.  The     *)
(* variable server, the file system and the signal queue are the           *)
(* environment; their failures are drawn nondeterministically.             *)
(***************************************************************************)
EXTENDS Integers, Sequences, FiniteSets, TLC

(***************************************************************************)
(* Bounds of the model                                                     *)
(***************************************************************************)
\* number of configuration variables held by the variable server
NumVars == 3
\* number of injected I/O failures (unlink, open, write, dprintf, rename)
MaxFaults == 1
\* number of notifications the variable server sends in one run
MaxEvents == 2
\* number of notifications that can wait in the signalfd queue
MaxQueue == 1

(***************************************************************************)
(* Values used by the program                                              *)
(***************************************************************************)
EOK == 0
EINVAL == 22
ENOENT == 2
EACCES == 13
ENOTSUP == 95
VAR_INVALID == 0
NULL == 0

DEFAULT_OUTPUT_FILENAME == "/tmp/usersettings.cfg"
DEFAULT_TRIGGER_VARIABLE == "/sys/config/save"

\* the -f arguments tried; "" stands for "no -f on the command line"
OptF == {"", "/etc/app.cfg"}

TmpName_Same(f) == f
\* snprintf( tmpfile, sizeof tmpfile, "%s.%s", filename, ".tmp" )
TmpName(f) == f \o "." \o ".tmp"

FileNames == {DEFAULT_OUTPUT_FILENAME} \cup (OptF \ {""})
Paths == FileNames \cup {TmpName(f) : f \in FileNames}

(***************************************************************************)
(* Files                                                                   *)
(***************************************************************************)
NoFile == [exists |-> FALSE, data |-> <<>>]
File(d) == [exists |-> TRUE, data |-> d]

Max(a, b) == IF a >= b THEN a ELSE b

\* write(2) of the first n tokens of bytes at offset off: bytes under the
\* written range are replaced, bytes beyond it are kept
WriteAt(data, off, bytes, n) ==
    [i \in 1..Max(Len(data), off + n) |->
        IF i > off /\ i <= off + n THEN bytes[i - off] ELSE data[i]]

(***************************************************************************)
(* The variable server's content                                           *)
(***************************************************************************)
Vars == 1..NumVars
\* handle of the trigger variable, as VAR_FindByName returns it
TriggerHandle == NumVars + 1

VarName(i) == "/sys/var" \o ToString(i)
VarInstance(i) == IF i % 2 = 0 THEN i + 1 ELSE 0
VarType(i) ==
    CASE i % 3 = 1 -> "VARTYPE_STR"
      [] i % 3 = 2 -> "VARTYPE_UINT16"
      [] OTHER     -> "VARTYPE_BLOB"
\* the value as text: what VAR_GetFirst/VAR_GetNext put in buf for a string
\* and what VAROBJECT_ToString puts there for a number
VarText(i) == IF VarType(i) = "VARTYPE_STR" THEN "alice" \o ToString(i)
              ELSE ToString(40 + i)

\* VAROBJECT_ToString: the library converts numbers and refuses a blob
VAROBJECT_ToString(i) ==
    IF VarType(i) = "VARTYPE_BLOB" THEN ENOTSUP ELSE EOK

\* rc of the conversion step of WriteConfigVars' loop body
ConvertRc(i) ==
    IF VarType(i) = "VARTYPE_STR" THEN EOK ELSE VAROBJECT_ToString(i)

FormatLine_AlwaysQualified(i) ==
    <<"[", ToString(VarInstance(i)), "]", VarName(i), "=", VarText(i), "\n">>
\* the tokens dprintf formats for variable i
FormatLine(i) ==
    IF VarInstance(i) = 0
    THEN <<VarName(i), "=", VarText(i), "\n">>
    ELSE <<"[", ToString(VarInstance(i)), "]", VarName(i), "=", VarText(i), "\n">>

\* char *config = "@config User Settings\n\n"
ConfigHeader == <<"@config User Settings", "\n", "\n">>

\* VAR_GetNext: the next variable after index c whose dirty flag is set,
\* 0 when there is none (the call returns ENOENT)
NextDirty(d, c) ==
    IF \E j \in d : j > c
    THEN CHOOSE j \in d : j > c /\ \A k \in d : k > c => j <= k
    ELSE 0

\* the lines of the variables of set d, in the server's order, skipping the
\* ones whose conversion fails
RECURSIVE LinesFrom(_, _)
LinesFrom(d, c) ==
    LET j == NextDirty(d, c) IN
    IF j = 0 THEN <<>>
    ELSE (IF ConvertRc(j) = EOK THEN FormatLine(j) ELSE <<>>) \o LinesFrom(d, j)

CompleteOutput(d) == ConfigHeader \o LinesFrom(d, 0)

(***************************************************************************)
(* Notifications                                                           *)
(***************************************************************************)
SIG_VAR_MODIFIED == "SIG_VAR_MODIFIED"
SIG_VAR_CALC == "SIG_VAR_CALC"
Events == [sig : {SIG_VAR_MODIFIED, SIG_VAR_CALC}, sigval : {1, TriggerHandle}]

VARIABLES
    \* --- the process ---
    pc,            \* position of the main flow (where it was, once ended)
    argF,          \* the -f argument ("" when absent)
    filename,      \* pState->filename
    tmpfile,       \* pState->tmpfile
    hVarServer,    \* pState->hVarServer (NULL or 1)
    hTriggerVar,   \* pState->hTriggerVar
    fd,            \* pState->fd
    result,        \* RunSvc's result
    cursor,        \* query context: index of the variable in obj (0: none)
    handler,       \* TerminationHandler installed
    freed,         \* number of free( pState ) calls
    closes,        \* number of VARSERVER_Close calls
    exitStatus,    \* exit status once the process has ended (-1 before)
    stderr,        \* diagnostics printed since the last matching trigger
    \* --- the environment ---
    fs,            \* path -> file
    fds,           \* open descriptors of the process
    off,           \* file offset of descriptor fd
    sigq,          \* notifications waiting in the signalfd
    dirty,         \* variables whose dirty flag is set
    \* --- history ---
    faults,        \* I/O failures injected so far
    delivered,     \* notifications sent so far
    nrecv,         \* matching notifications received
    ndrop,         \* other notifications received
    nstart,        \* persistence cycles started
    cfgPre,        \* canonical file when the current cycle started
    prev,          \* how the cycle before the current one ended
    wanted,        \* tokens handed to write/dprintf in the current cycle
    cfgWanted,     \* "wanted" of the cycle that produced the canonical file
    trace,         \* steps the current cycle has performed
    failed,        \* steps of the current cycle that failed
    dirtyAtStart,  \* dirty set when the enumeration of the cycle started
    regStable      \* dirty set unchanged since the enumeration started

proc == <<pc, argF, filename, tmpfile, hVarServer, hTriggerVar, fd, result,
          cursor, handler, freed, closes, exitStatus, stderr>>
env == <<fs, fds, off, sigq, dirty>>
hist == <<faults, delivered, nrecv, ndrop, nstart, cfgPre, prev, wanted,
          cfgWanted, trace, failed, dirtyAtStart, regStable>>
vars == <<proc, env, hist>>

\* "prev" when there is no earlier cycle that reported success
NoCycle == [ok |-> FALSE, dirty |-> {}]

\* the canonical file and the temporary file of this run
TargetPath == IF argF = "" THEN DEFAULT_OUTPUT_FILENAME ELSE argF
Canon == fs[TargetPath]
Temp == fs[TmpName(TargetPath)]

\* a temporary file left by an earlier run that was killed in mid-write
StaleTmp == ConfigHeader \o FormatLine(1) \o FormatLine(2) \o <<"[">>
\* a configuration file written by an earlier run
OldConfig == CompleteOutput({1})

Init ==
    /\ pc = "main"
    /\ argF \in OptF
    /\ filename = DEFAULT_OUTPUT_FILENAME
    /\ tmpfile = ""
    /\ hVarServer = NULL
    /\ hTriggerVar = VAR_INVALID
    /\ fd = -1
    /\ result = EINVAL
    /\ cursor = 0
    /\ handler = FALSE
    /\ freed = 0
    /\ closes = 0
    /\ exitStatus = -1
    /\ stderr = <<>>
    /\ \E c \in {NoFile, File(OldConfig)}, t \in {NoFile, File(StaleTmp)} :
          fs = [p \in Paths |->
                   IF p = TargetPath THEN c
                   ELSE IF p = TmpName(TargetPath) THEN t
                   ELSE NoFile]
    /\ fds = {}
    /\ off = 0
    /\ sigq = <<>>
    /\ dirty \in SUBSET Vars
    /\ faults = 0
    /\ delivered = 0
    /\ nrecv = 0
    /\ ndrop = 0
    /\ nstart = 0
    /\ cfgPre = Canon
    /\ prev = NoCycle
    /\ wanted = <<>>
    /\ cfgWanted = Canon.data
    /\ trace = {}
    /\ failed = {}
    /\ dirtyAtStart = {}
    /\ regStable = TRUE

(***************************************************************************)
(* main: start-up                                                          *)
(***************************************************************************)
StartupPcs == {"main", "find", "notify"}
CleanupPcs == {"cleanup", "clear", "free", "return"}
CyclePcs == {"init", "open", "header", "first", "var", "close", "finalize",
             "report"}
\* the process has not ended
Alive == exitStatus = -1
\* the main flow is at position l
At(l) == Alive /\ pc = l
\* the process is inside RunSvc
InService == Alive /\ (pc = "wait" \/ pc \in CyclePcs)

Say(msg) == stderr' = Append(stderr, msg)

\* VARSERVER_Open, SetupTerminationHandler, ProcessOptions
VarserverOpen ==
    /\ At("main")
    /\ \/ /\ hVarServer' = 1
          /\ handler' = TRUE
          /\ filename' = IF argF = "" THEN filename ELSE argF
          /\ pc' = "find"
          /\ UNCHANGED stderr
       \/ /\ Say("Cannot open variable server")
          /\ pc' = "free"
          /\ UNCHANGED <<hVarServer, handler, filename>>
    /\ UNCHANGED <<argF, tmpfile, hTriggerVar, fd, result, cursor, freed,
                   closes, exitStatus, env, hist>>

\* VAR_FindByName on the trigger variable
FindTrigger ==
    /\ At("find")
    /\ \E hVar \in {VAR_INVALID, TriggerHandle} :
          IF hVar /= VAR_INVALID
          THEN /\ hTriggerVar' = hVar
               /\ pc' = "notify"
               /\ UNCHANGED stderr
          ELSE /\ Say("Cannot find trigger variable: " \o DEFAULT_TRIGGER_VARIABLE)
               /\ pc' = "cleanup"
               /\ UNCHANGED hTriggerVar
    /\ UNCHANGED <<argF, filename, tmpfile, hVarServer, fd, result, cursor,
                   handler, freed, closes, exitStatus, env, hist>>

AfterNotify_RunAnyway(rc) == "wait"
\* main: RunSvc is called only when VAR_Notify returned EOK
AfterNotify(rc) == IF rc = EOK THEN "wait" ELSE "cleanup"

\* VAR_Notify( NOTIFY_MODIFIED ), then RunSvc up to its first wait
RequestNotify ==
    /\ At("notify")
    /\ \E rc \in {EOK, EINVAL} :
          IF rc = EOK
          THEN /\ pc' = AfterNotify(rc)
               /\ result' = EOK
               /\ UNCHANGED stderr
          ELSE /\ Say("notification request failed for "
                        \o DEFAULT_TRIGGER_VARIABLE)
               /\ pc' = AfterNotify(rc)
               /\ UNCHANGED result
    /\ UNCHANGED <<argF, filename, tmpfile, hVarServer, hTriggerVar, fd,
                   cursor, handler, freed, closes, exitStatus, env, hist>>

\* VARSERVER_Close( pState->hVarServer )
MainClose ==
    /\ At("cleanup")
    /\ closes' = closes + 1
    /\ pc' = "clear"
    /\ UNCHANGED <<argF, filename, tmpfile, hVarServer, hTriggerVar, fd,
                   result, cursor, handler, freed, exitStatus, stderr, env,
                   hist>>

\* pState->hVarServer = NULL
MainClear ==
    /\ At("clear")
    /\ hVarServer' = NULL
    /\ pc' = "free"
    /\ UNCHANGED <<argF, filename, tmpfile, hTriggerVar, fd, result, cursor,
                   handler, freed, closes, exitStatus, stderr, env, hist>>

\* free( pState )
MainFree ==
    /\ At("free")
    /\ freed' = freed + 1
    /\ pc' = "return"
    /\ UNCHANGED <<argF, filename, tmpfile, hVarServer, hTriggerVar, fd,
                   result, cursor, handler, closes, exitStatus, stderr, env,
                   hist>>

\* return 0
MainReturn ==
    /\ At("return")
    /\ exitStatus' = 0
    /\ fds' = {}
    /\ UNCHANGED <<pc, argF, filename, tmpfile, hVarServer, hTriggerVar, fd,
                   result, cursor, handler, freed, closes, stderr, fs, off,
                   sigq, dirty, hist>>

(***************************************************************************)
(* RunSvc: the listener                                                    *)
(***************************************************************************)
IsTrigger_AnyHandle(ev) == ev.sig = SIG_VAR_MODIFIED
\* the test RunSvc makes on a received notification
IsTrigger(ev) == ev.sig = SIG_VAR_MODIFIED /\ hTriggerVar = ev.sigval

\* VARSERVER_WaitSignalfd returns the oldest waiting notification
WaitSignal ==
    /\ At("wait")
    /\ sigq /= <<>>
    /\ sigq' = Tail(sigq)
    /\ IF IsTrigger(Head(sigq))
       THEN /\ pc' = "init"
            /\ nrecv' = nrecv + 1
            /\ stderr' = <<>>
            /\ cfgPre' = Canon
            /\ prev' = IF /\ nstart > 0
                          /\ result = EOK
                          /\ regStable
                          /\ "enumerate" \in trace
                       THEN [ok |-> TRUE, dirty |-> dirtyAtStart]
                       ELSE NoCycle
            /\ wanted' = <<>>
            /\ trace' = {}
            /\ failed' = {}
            /\ dirtyAtStart' = {}
            /\ regStable' = TRUE
            /\ UNCHANGED ndrop
       ELSE /\ ndrop' = ndrop + 1
            /\ UNCHANGED <<pc, nrecv, stderr, cfgPre, prev, wanted, trace, failed,
                           dirtyAtStart, regStable>>
    /\ UNCHANGED <<argF, filename, tmpfile, hVarServer, hTriggerVar, fd,
                   result, cursor, handler, freed, closes, exitStatus, fs,
                   fds, off, dirty, faults, delivered, nstart, cfgWanted>>

AfterInitConfig_RenameFirst(r) == IF r = EOK THEN "finalize" ELSE "report"
\* RunSvc: WriteConfig is called only when InitConfig returned EOK
AfterInitConfig(r) == IF r = EOK THEN "header" ELSE "report"

\* RunSvc: FinalizeConfig is called only when WriteConfig returned EOK
AfterWriteConfig(r) == IF r = EOK THEN "finalize" ELSE "report"

FailureDiag_NamesTmp(f, t) == "Failed to create configuration file: " \o t
\* fprintf( stderr, "Failed to create configuration file: %s\n", filename )
FailureDiag(f, t) == "Failed to create configuration file: " \o f

AfterCycle_Retry(r) == IF r /= EOK THEN "init" ELSE "wait"
AfterCycle_LeaveOnFailure(r) == IF r /= EOK THEN "cleanup" ELSE "wait"
\* while ( 1 ): whatever the result, the loop goes back to the wait
AfterCycle(r) == "wait"

\* the end of a cycle in RunSvc: the diagnostic when result is not EOK
Report ==
    /\ At("report")
    /\ IF result /= EOK
       THEN Say(FailureDiag(filename, tmpfile))
       ELSE UNCHANGED stderr
    /\ pc' = AfterCycle(result)
    /\ UNCHANGED <<argF, filename, tmpfile, hVarServer, hTriggerVar, fd,
                   result, cursor, handler, freed, closes, exitStatus, env,
                   hist>>

(***************************************************************************)
(* InitConfig                                                              *)
(***************************************************************************)
\* snprintf of the temporary name and unlink( pState->tmpfile )
InitUnlink ==
    /\ At("init")
    /\ nstart' = nstart + 1
    /\ tmpfile' = TmpName(filename)
    /\ trace' = trace \cup {"unlink"}
    /\ IF fs[TmpName(filename)].exists
       THEN \/ /\ fs' = [fs EXCEPT ![TmpName(filename)] = NoFile]
               /\ result' = EINVAL
               /\ UNCHANGED <<faults, failed>>
            \/ /\ faults < MaxFaults
               /\ faults' = faults + 1
               /\ failed' = failed \cup {"unlink"}
               /\ result' = -1
               /\ UNCHANGED fs
       ELSE /\ result' = -1
            /\ UNCHANGED <<fs, faults, failed>>
    /\ pc' = "open"
    /\ UNCHANGED <<argF, filename, hVarServer, hTriggerVar, fd, cursor,
                   handler, freed, closes, exitStatus, stderr, fds, off, sigq,
                   dirty, delivered, nrecv, ndrop, cfgPre, prev, wanted, cfgWanted,
                   dirtyAtStart, regStable>>

\* the lowest descriptor that is not open
FreeFd == CHOOSE n \in 3..(3 + Cardinality(fds)) :
             /\ n \notin fds
             /\ \A m \in 3..(3 + Cardinality(fds)) : m \notin fds => n <= m

\* open( pState->tmpfile, O_CREAT | O_WRONLY, 0644 )
InitOpen ==
    /\ At("open")
    /\ \/ /\ fd' = FreeFd
          /\ fds' = fds \cup {FreeFd}
          /\ off' = 0
          /\ fs' = [fs EXCEPT ![tmpfile] =
                       IF fs[tmpfile].exists THEN fs[tmpfile] ELSE File(<<>>)]
          /\ result' = EOK
          /\ trace' = trace \cup {"open"}
          /\ pc' = AfterInitConfig(EOK)
          /\ UNCHANGED <<faults, failed>>
       \/ /\ faults < MaxFaults
          /\ faults' = faults + 1
          /\ failed' = failed \cup {"open"}
          /\ fd' = -1
          /\ result' = EACCES
          /\ trace' = trace \cup {"open"}
          /\ pc' = AfterInitConfig(EACCES)
          /\ UNCHANGED <<fds, off, fs>>
    /\ UNCHANGED <<argF, filename, tmpfile, hVarServer, hTriggerVar, cursor,
                   handler, freed, closes, exitStatus, stderr, sigq, dirty,
                   delivered, nrecv, ndrop, nstart, cfgPre, prev, wanted, cfgWanted,
                   dirtyAtStart, regStable>>

(***************************************************************************)
(* WriteConfig, WriteConfigVars                                            *)
(***************************************************************************)
\* the outcomes of writing len tokens: -1 (error, nothing written) or the
\* number of tokens written
WriteOutcomes(len) == {-1} \cup (0..len)

\* WriteConfig up to the header: write( pState->fd, config, len )
WriteHeader ==
    /\ At("header")
    /\ IF fd = -1
       THEN /\ result' = EINVAL
            /\ pc' = "report"
            /\ UNCHANGED <<fs, off, stderr, wanted, trace, failed, faults>>
       ELSE \E n \in WriteOutcomes(Len(ConfigHeader)) :
            LET len == Len(ConfigHeader)
                put == Max(n, 0)
            IN  /\ n /= len => faults < MaxFaults
                /\ fs' = [fs EXCEPT ![tmpfile].data =
                             WriteAt(@, off, ConfigHeader, put)]
                /\ off' = off + put
                /\ wanted' = ConfigHeader
                /\ trace' = trace \cup {"header"}
                /\ result' = EINVAL
                /\ IF n /= len
                   THEN /\ Say("Header output failed")
                        /\ failed' = failed \cup {"header"}
                        /\ faults' = faults + 1
                        /\ pc' = "close"
                   ELSE /\ pc' = "first"
                        /\ UNCHANGED <<stderr, failed, faults>>
    /\ UNCHANGED <<argF, filename, tmpfile, hVarServer, hTriggerVar, fd,
                   cursor, handler, freed, closes, exitStatus, fds, sigq,
                   dirty, delivered, nrecv, ndrop, nstart, cfgPre, prev, cfgWanted,
                   dirtyAtStart, regStable>>

\* WriteConfigVars: VAR_GetFirst with query.flags = VARFLAG_DIRTY
GetFirst ==
    /\ At("first")
    /\ cursor' = NextDirty(dirty, 0)
    /\ result' = IF NextDirty(dirty, 0) = 0 THEN ENOENT ELSE EOK
    /\ pc' = IF NextDirty(dirty, 0) = 0 THEN "close" ELSE "var"
    /\ dirtyAtStart' = dirty
    /\ regStable' = TRUE
    /\ trace' = trace \cup {"enumerate"}
    /\ UNCHANGED <<argF, filename, tmpfile, hVarServer, hTriggerVar, fd,
                   handler, freed, closes, exitStatus, stderr, env, faults,
                   delivered, nrecv, ndrop, nstart, cfgPre, prev, wanted, cfgWanted,
                   failed>>

DirtyAfterEmit_Cleared(d, i) == d \ {i}
\* the dirty flags after a turn of the loop: WriteConfigVars makes no call
\* that sets or clears a flag
DirtyAfterEmit(d, i) == d

EmitsLine_Always(rc) == TRUE
\* WriteConfigVars: a line is printed when the conversion returned EOK
EmitsLine(rc) == rc = EOK

\* WriteConfigVars: one turn of the loop: conversion, dprintf, VAR_GetNext
WriteVar ==
    /\ At("var")
    /\ LET line == FormatLine(cursor)
           nxt  == NextDirty(dirty, cursor)
       IN  /\ IF EmitsLine(ConvertRc(cursor))
              THEN \E n \in 0..Len(line) :
                     /\ n /= Len(line) => faults < MaxFaults
                     /\ fs' = [fs EXCEPT ![tmpfile].data =
                                  WriteAt(@, off, line, n)]
                     /\ off' = off + n
                     /\ wanted' = wanted \o line
                     /\ IF n /= Len(line)
                        THEN /\ failed' = failed \cup {"line"}
                             /\ faults' = faults + 1
                        ELSE UNCHANGED <<failed, faults>>
              ELSE UNCHANGED <<fs, off, wanted, failed, faults>>
           /\ cursor' = nxt
           /\ dirty' = DirtyAfterEmit(dirty, cursor)
           /\ result' = IF nxt = 0 THEN ENOENT ELSE EOK
           /\ pc' = IF nxt = 0 THEN "close" ELSE "var"
    /\ UNCHANGED <<argF, filename, tmpfile, hVarServer, hTriggerVar, fd,
                   handler, freed, closes, exitStatus, stderr, fds, sigq,
                   delivered, nrecv, ndrop, nstart, cfgPre, prev, cfgWanted,
                   trace, dirtyAtStart, regStable>>

CloseFd_Leak(s, f) == s
\* the descriptor table after close( f )
CloseFd(s, f) == s \ {f}

\* WriteConfig: close( pState->fd ); pState->fd = -1; result = EOK
CloseConfig ==
    /\ At("close")
    /\ fds' = CloseFd(fds, fd)
    /\ fd' = -1
    /\ result' = EOK
    /\ trace' = trace \cup {"close"}
    /\ pc' = AfterWriteConfig(EOK)
    /\ UNCHANGED <<argF, filename, tmpfile, hVarServer, hTriggerVar, cursor,
                   handler, freed, closes, exitStatus, stderr, fs, off, sigq,
                   dirty, faults, delivered, nrecv, ndrop, nstart, cfgPre, prev,
                   wanted, cfgWanted, failed, dirtyAtStart, regStable>>

(***************************************************************************)
(* FinalizeConfig                                                          *)
(***************************************************************************)
RenameResult_AlwaysOk(rc) == EOK
\* result = ( rc == 0 ) ? EOK : errno
RenameResult(rc) == IF rc = 0 THEN EOK ELSE EACCES

\* rename( pState->tmpfile, pState->filename )
FinalizeConfig ==
    /\ At("finalize")
    /\ trace' = trace \cup {"rename"}
    /\ \/ /\ fs[tmpfile].exists
          /\ fs' = [fs EXCEPT ![filename] = fs[tmpfile], ![tmpfile] = NoFile]
          /\ cfgWanted' = wanted
          /\ result' = RenameResult(0)
          /\ UNCHANGED <<failed, faults>>
       \/ /\ faults < MaxFaults
          /\ faults' = faults + 1
          /\ failed' = failed \cup {"rename"}
          /\ result' = RenameResult(-1)
          /\ UNCHANGED <<fs, cfgWanted>>
    /\ pc' = "report"
    /\ UNCHANGED <<argF, filename, tmpfile, hVarServer, hTriggerVar, fd,
                   cursor, handler, freed, closes, exitStatus, stderr, fds,
                   off, sigq, dirty, delivered, nrecv, ndrop, nstart, cfgPre, prev,
                   wanted, dirtyAtStart, regStable>>

(***************************************************************************)
(* TerminationHandler                                                      *)
(***************************************************************************)
HandlerCloses_Never(hv, n) == n
\* the VARSERVER_Close calls made so far, after the handler's
\* if ( pState->hVarServer != NULL ) VARSERVER_Close( ... )
HandlerCloses(hv, n) == IF hv /= NULL THEN n + 1 ELSE n

\* SIGTERM or SIGINT: close the variable server, free pState, exit( 1 ).
\* main never clears the global pState, so after main's free( pState ) the
\* handler reads freed memory (the value it sees in pState->hVarServer is
\* arbitrary) and frees it a second time: the process then ends with
\* exit( 1 ) or is aborted by the allocator (status 134).
TerminationHandler ==
    /\ handler
    /\ Alive
    /\ \E hv \in (IF freed = 0 THEN {hVarServer} ELSE {NULL, 1}) :
          closes' = HandlerCloses(hv, closes)
    /\ hVarServer' = NULL
    /\ freed' = freed + 1
    /\ exitStatus' \in (IF freed = 0 THEN {1} ELSE {1, 134})
    /\ fds' = {}
    /\ UNCHANGED <<pc, argF, filename, tmpfile, hTriggerVar, fd, result, cursor,
                   handler, stderr, fs, off, sigq, dirty, hist>>

(***************************************************************************)
(* The environment                                                         *)
(***************************************************************************)
\* the variable server sends a notification to the process
Deliver ==
    /\ InService
    /\ delivered < MaxEvents
    /\ Len(sigq) < MaxQueue
    /\ \E ev \in Events : sigq' = Append(sigq, ev)
    /\ delivered' = delivered + 1
    /\ UNCHANGED <<proc, fs, fds, off, dirty, faults, nrecv, ndrop, nstart,
                   cfgPre, prev, wanted, cfgWanted, trace, failed, dirtyAtStart,
                   regStable>>

\* the process reads the dirty flags in VAR_GetFirst and VAR_GetNext only
\* (GetNext looks at the variables after the cursor), so a change of flag v
\* is taken at the first point where the process can see it: a change made
\* at any other time has the same effect as one made just before that read
Observable(v) == pc = "first" \/ (pc = "var" /\ v > cursor)

\* a client of the variable server sets or clears a dirty flag
RegistryChange ==
    /\ InService
    /\ \E v \in Vars :
          /\ Observable(v)
          /\ dirty' = IF v \in dirty THEN dirty \ {v} ELSE dirty \cup {v}
    /\ regStable' = IF pc = "var" THEN FALSE ELSE regStable
    /\ UNCHANGED <<proc, fs, fds, off, sigq, faults, delivered, nrecv, ndrop,
                   nstart, cfgPre, prev, wanted, cfgWanted, trace, failed,
                   dirtyAtStart>>

Next ==
    \/ VarserverOpen
    \/ FindTrigger
    \/ RequestNotify
    \/ MainClose
    \/ MainClear
    \/ MainFree
    \/ MainReturn
    \/ WaitSignal
    \/ InitUnlink
    \/ InitOpen
    \/ WriteHeader
    \/ GetFirst
    \/ WriteVar
    \/ CloseConfig
    \/ FinalizeConfig
    \/ Report
    \/ TerminationHandler
    \/ Deliver
    \/ RegistryChange

Spec == Init /\ [][Next]_vars

\* the steps of a persistence cycle; each is a system or library call that
\* returns, so the single thread of RunSvc always takes the next one
CycleStep ==
    \/ InitUnlink
    \/ InitOpen
    \/ WriteHeader
    \/ GetFirst
    \/ WriteVar
    \/ CloseConfig
    \/ FinalizeConfig
    \/ Report

\* a run without -f that finds no canonical file
LiveInit == Init /\ argF = "" /\ ~Canon.exists

\* the steps of main's cleanup after RunSvc was not entered
MainStep ==
    \/ MainClose
    \/ MainClear
    \/ MainFree
    \/ MainReturn

LiveSpec ==
    LiveInit /\ [][Next]_vars /\ WF_vars(CycleStep) /\ WF_vars(MainStep)

TypeOK ==
    /\ pc \in StartupPcs \cup CleanupPcs \cup CyclePcs \cup {"wait"}
    /\ fd \in {-1} \cup (3..(3 + MaxEvents))
    /\ dirty \subseteq Vars
    /\ Len(sigq) <= MaxQueue

(***************************************************************************)
(* Properties                                                              *)
(***************************************************************************)
\* a cycle has run to its end and the listener is waiting again
CycleDone == pc = "wait" /\ nstart > 0

\* the diagnostic of a failed cycle, naming the configured target path
TargetDiag == "Failed to create configuration file: " \o TargetPath
Printed(msg) == \E i \in 1..Len(stderr) : stderr[i] = msg

\* C1: the canonical file is always the complete output of the cycle that
\* produced it (or the file found at start-up), never a partial write.
C1_CanonicalNeverPartial ==
    Canon.exists => Canon.data = cfgWanted

\* C2: when the header write fails or is short, the cycle does no rename
\* and the canonical file is what it was before the cycle.
C2_HeaderFailureAborts ==
    (CycleDone /\ "header" \in failed) =>
        ("rename" \notin trace /\ Canon = cfgPre)

\* C3: when a write of a variable line fails, the canonical file after the
\* cycle is what it was before the cycle.
C3_LineFailureAborts ==
    (CycleDone /\ "line" \in failed) => Canon = cfgPre

\* C4: when the temporary file cannot be created, the cycle writes no header,
\* enumerates nothing, renames nothing, leaves the canonical file as it was
\* and ends with the diagnostic that names the configured target path.
C4_CreateFailure ==
    "open" \in failed =>
        /\ trace \cap {"header", "enumerate", "rename"} = {}
        /\ Canon = cfgPre
        /\ fd = -1
        /\ CycleDone => (result /= EOK /\ Printed(TargetDiag))

C4_Witness ==
    CycleDone /\ "open" \in failed /\ Canon.exists /\ argF /= ""

\* C5: after a cycle that reports success the canonical file is the header,
\* the blank line and one line per variable that was dirty when the
\* enumeration started and whose conversion succeeded, in the server's order.
C5_SuccessfulCycleContent ==
    (CycleDone /\ result = EOK /\ regStable) =>
        Canon.data = CompleteOutput(dirtyAtStart)

\* C6: when the rename fails the cycle reports the failure, the temporary
\* file stays where it is and the canonical file is what it was before.
C6_RenameFailure ==
    "rename" \in failed =>
        /\ Temp.exists
        /\ Canon = cfgPre
        /\ pc \in {"report", "wait"}
        /\ result /= EOK
        /\ CycleDone => Printed(TargetDiag)

C6_Witness ==
    CycleDone /\ "rename" \in failed /\ ~cfgPre.exists /\ Len(Temp.data) > 3

\* after a cycle in which no I/O step failed and some dirty variable could
\* not be converted, the cycle has reported success and the canonical file
\* holds the header and exactly the lines of the other dirty variables
C7_SkippedAndCommitted ==
    (/\ CycleDone
     /\ failed = {}
     /\ regStable
     /\ \E v \in dirtyAtStart : ConvertRc(v) /= EOK) =>
        /\ result = EOK
        /\ "rename" \in trace
        /\ Canon.exists
        /\ Canon.data = CompleteOutput(dirtyAtStart)

\* a turn of the loop on a variable whose conversion fails writes nothing
\* and goes on to the next dirty variable
C7_SkipStep ==
    (/\ At("var")
     /\ ConvertRc(cursor) /= EOK
     /\ cursor' /= cursor) =>
        /\ UNCHANGED <<fs, off, failed>>
        /\ cursor' = NextDirty(dirty, cursor)
        /\ pc' = IF cursor' = 0 THEN "close" ELSE "var"

\* C7: a variable whose conversion to text fails gets no line and stops
\* nothing: the enumeration goes on with the next variable, and when no I/O
\* step fails the cycle reports success and commits a file with the header
\* and exactly the lines of the other dirty variables.
C7_ConversionFailureSkipsRecord ==
    []C7_SkippedAndCommitted /\ [][C7_SkipStep]_vars

C7_Witness ==
    /\ CycleDone
    /\ failed = {}
    /\ regStable
    /\ dirtyAtStart = {1, 2, 3}
    /\ Canon.data = ConfigHeader \o FormatLine(1) \o FormatLine(2)

\* the notification at the head of the queue is a MODIFIED of the trigger
HeadIsTrigger ==
    /\ sigq /= <<>>
    /\ Head(sigq).sig = SIG_VAR_MODIFIED
    /\ Head(sigq).sigval = TriggerHandle

\* C8: the listener leaves the wait for a cycle only on a MODIFIED
\* notification of the trigger handle; on any other notification it does no
\* file operation and waits again.
C8_OnlyTriggerStartsCycle ==
    [][(pc = "wait" /\ Alive') =>
          /\ (pc' /= "wait" => HeadIsTrigger)
          /\ ((Len(sigq') < Len(sigq) /\ ~HeadIsTrigger) =>
                 (pc' = "wait" /\ UNCHANGED <<fs, fds, fd, trace, nstart>>))]_vars

C8_Witness ==
    /\ pc = "wait"
    /\ ndrop = 2
    /\ nstart = 0
    /\ delivered = 2

\* C9: the cycles started are exactly the matching notifications received:
\* one cycle per matching notification, and no cycle (so no retry of a
\* failed one) without a new matching notification.
C9_OneCyclePerTrigger ==
    nrecv = nstart + (IF pc = "init" THEN 1 ELSE 0)

C9_Witness ==
    /\ CycleDone
    /\ failed /= {}
    /\ result /= EOK
    /\ nstart = 1
    /\ sigq = <<>>

\* C10: cycles never overlap: a cycle starts only when no temporary-file
\* handle is open, and at most one handle is open at any time, also while
\* a trigger notification waits in the queue.
C10_NoOverlap ==
    /\ Cardinality(fds) <= 1
    /\ pc = "init" => (fds = {} /\ fd = -1)
    /\ fds /= {} => (pc \in {"header", "first", "var", "close"} /\ fds = {fd})

C10_Witness ==
    /\ pc = "var"
    /\ fds = {fd}
    /\ nstart = 1
    /\ HeadIsTrigger

\* a persistence cycle is running
InCycle == Alive /\ pc \in CyclePcs

\* C11: every cycle that is started runs to its end and the listener waits
\* again, after success and after every step failure, unless a termination
\* signal ends the process.
C11_CycleTerminates ==
    InCycle ~> ((Alive /\ pc = "wait") \/ exitStatus = 1)

\* a cycle committed after an earlier cycle of the same run had failed
C11_Witness ==
    /\ CycleDone
    /\ nstart = 2
    /\ faults = 1
    /\ failed = {}
    /\ result = EOK
    /\ "rename" \in trace
    /\ Canon.data = CompleteOutput(dirtyAtStart)

\* C12: two consecutive cycles that both report success and enumerate the
\* same dirty set leave the same content at the canonical path.
C12_Idempotent ==
    (/\ CycleDone
     /\ prev.ok
     /\ result = EOK
     /\ regStable
     /\ "enumerate" \in trace
     /\ dirtyAtStart = prev.dirty) =>
        Canon.data = cfgPre.data

\* the line has the form name=value
IsPlainLine(line, i) ==
    /\ Len(line) = 4
    /\ line[1] = VarName(i)
    /\ line[2] = "="
    /\ line[4] = "\n"

\* the line has the form [instance]name=value
IsQualifiedLine(line, i) ==
    /\ Len(line) = 7
    /\ line[1] = "["
    /\ line[2] = ToString(VarInstance(i))
    /\ line[3] = "]"
    /\ line[4] = VarName(i)
    /\ line[5] = "="
    /\ line[7] = "\n"

\* the tokens the step hands to dprintf
Emitted == SubSeq(wanted', Len(wanted) + 1, Len(wanted'))

\* C13: a line handed to dprintf is name=value, without a bracketed prefix,
\* exactly when the instance identifier of its variable is zero, and
\* [instance]name=value exactly when it is not zero.
C13_InstancePrefix ==
    [][(At("var") /\ wanted' /= wanted) =>
          /\ IsPlainLine(Emitted, cursor) <=> VarInstance(cursor) = 0
          /\ IsQualifiedLine(Emitted, cursor) <=> VarInstance(cursor) /= 0]_vars

C13_Witness ==
    /\ pc = "close"
    /\ wanted = ConfigHeader \o
                <<"/sys/var1", "=", "alice1", "\n",
                  "[", "3", "]", "/sys/var2", "=", "42", "\n">>

\* C14: a cycle in which the create, the header write, a line write or the
\* rename failed does not report success: it prints the diagnostic naming
\* the target path and leaves the canonical file as it was.
C14_FailureIsReported ==
    (CycleDone /\ failed \cap {"open", "header", "line", "rename"} /= {}) =>
        /\ result /= EOK
        /\ Printed(TargetDiag)
        /\ Canon = cfgPre

\* one of main's start-up diagnostics has been printed
StartupFailed ==
    \/ Printed("Cannot open variable server")
    \/ Printed("Cannot find trigger variable: " \o DEFAULT_TRIGGER_VARIABLE)
    \/ Printed("notification request failed for " \o DEFAULT_TRIGGER_VARIABLE)

\* after a start-up failure the main flow is in its cleanup, no notification
\* was received, no cycle was started and no descriptor is open
C15_NoService ==
    StartupFailed =>
        /\ pc \in CleanupPcs
        /\ nrecv = 0
        /\ ndrop = 0
        /\ nstart = 0
        /\ trace = {}
        /\ fds = {}
        /\ fd = -1
        /\ Len(stderr) = 1

\* C15: when the variable server cannot be opened, the trigger variable is
\* not found or the notification is refused, the process prints the error,
\* never enters the listener loop, never starts a cycle, never touches a
\* file, and exits.
C15_StartupFailure ==
    /\ []C15_NoService
    /\ [][StartupFailed => (fs' = fs /\ pc' \in CleanupPcs)]_vars
    /\ StartupFailed ~> ~Alive

C15_Witness ==
    /\ ~Alive
    /\ exitStatus = 0
    /\ Printed("notification request failed for " \o DEFAULT_TRIGGER_VARIABLE)
    /\ closes = 1
    /\ freed = 1
    /\ Temp.exists

\* the process was ended by the termination signal while a cycle was running
KilledInCycle == exitStatus = 1 /\ pc \in CyclePcs

\* the step is the termination signal arriving during a cycle
KillStep == InCycle /\ ~Alive'

\* C16: a termination signal at any point of a cycle closes the variable
\* server connection and ends the process with status 1; the cycle is
\* neither completed nor undone (no file changes, then or later), and when
\* the rename had not been executed the canonical file is the one from
\* before the cycle.
C16_KillInCycle ==
    /\ [][KillStep =>
             /\ exitStatus' = 1
             /\ closes' = closes + 1
             /\ hVarServer' = NULL
             /\ UNCHANGED <<fs, pc, trace>>]_vars
    /\ [][~Alive => UNCHANGED <<fs, trace, exitStatus>>]_vars
    /\ [](KilledInCycle =>
             /\ closes = 1
             /\ "rename" \notin trace => Canon = cfgPre)

\* killed between the line writes and the close, with a canonical file
\* from an earlier run and a fully written temporary file
C16_Witness ==
    /\ KilledInCycle
    /\ pc = "close"
    /\ cfgPre.exists
    /\ Canon = cfgPre
    /\ Temp.exists
    /\ Temp.data = wanted
    /\ Len(wanted) > Len(ConfigHeader)

\* C17: when the header write begins the temporary file is empty, whether
\* or not a stale temporary file existed and whether or not its unlink
\* succeeded.
C17_TempEmptyAtHeader ==
    At("header") => (Temp.exists /\ Temp.data = <<>>)

\* C18: while the listener waits no temporary-file handle is open: the
\* handle of a cycle is closed on every path of the cycle, and a failed
\* create leaves none.
C18_NoHandleWhileWaiting ==
    /\ (pc \in {"wait", "finalize", "report"}) => (fd = -1 /\ fds = {})
    /\ "open" \in failed => (fd = -1 /\ fds = {})

\* back at the wait after a cycle whose header write failed
C18_Witness ==
    /\ Alive
    /\ CycleDone
    /\ "header" \in failed
    /\ "close" \in trace
    /\ fd = -1
    /\ fds = {}

\* the steps of the current cycle were taken in the order unlink, create,
\* header, enumeration, close, rename
C19_Order ==
    /\ "open" \in trace => "unlink" \in trace
    /\ "header" \in trace => ("open" \in trace /\ "open" \notin failed)
    /\ "enumerate" \in trace => ("header" \in trace /\ "header" \notin failed)
    /\ "close" \in trace => "header" \in trace
    /\ "rename" \in trace => ("close" \in trace /\ fds = {} /\ fd = -1)

\* C19: the steps of a cycle happen in the order unlink, create, header,
\* variable lines, close, rename; the rename is executed only when the
\* handle is closed and nothing is written to a file after it in the cycle.
C19_StepOrder ==
    /\ []C19_Order
    /\ [][("rename" \in trace' /\ "rename" \notin trace) =>
             (fds = {} /\ fd = -1 /\ "close" \in trace)]_vars
    /\ [][("rename" \in trace /\ "rename" \in trace') => fs' = fs]_vars

C19_Witness ==
    /\ CycleDone
    /\ failed = {}
    /\ trace = {"unlink", "open", "header", "enumerate", "close", "rename"}
    /\ Canon.data = wanted
    /\ Len(wanted) > Len(ConfigHeader)

\* C20: no step of the process changes a dirty flag: after a cycle during
\* which no client changed the registry, the variables that were dirty when
\* it enumerated them are still dirty.
C20_RegistryUntouched ==
    /\ [][proc' /= proc => dirty' = dirty]_vars
    /\ []((CycleDone /\ regStable /\ "enumerate" \in trace) =>
             dirty = dirtyAtStart)

C20_Witness ==
    /\ CycleDone
    /\ regStable
    /\ result = EOK
    /\ "rename" \in trace
    /\ dirtyAtStart = {1, 2, 3}
    /\ dirty = {1, 2, 3}

\* the step is a successful rename of the temporary file onto the target
RenameStep ==
    /\ At("finalize")
    /\ "rename" \in trace'
    /\ "rename" \notin failed'
    /\ fs'[TargetPath] = fs[TmpName(TargetPath)]

\* C21: the canonical file changes only in a successful rename of the
\* finalize step; unlink, create and the writes act on the temporary path,
\* which differs from the canonical path, and leave the canonical file as
\* it is.
C21_OnlyRenameChangesCanonical ==
    /\ [](TmpName(TargetPath) /= TargetPath /\ tmpfile /= filename)
    /\ [][fs'[TargetPath] /= fs[TargetPath] => RenameStep]_vars
    /\ [][(pc \in {"init", "open", "header", "first", "var", "close"}) =>
             fs'[TargetPath] = fs[TargetPath]]_vars

\* a cycle replaced an earlier canonical file by a longer one
C21_Witness ==
    /\ CycleDone
    /\ failed = {}
    /\ cfgPre.exists
    /\ Canon.exists
    /\ Canon /= cfgPre
    /\ Len(Canon.data) > Len(cfgPre.data)
    /\ ~Temp.exists

\* C22: wherever the termination signal interrupts the main flow, the
\* variable server connection is closed at most once and pState is freed at
\* most once (the handler, which reads pState before freeing it, never runs
\* on freed memory).
C22_CleanupOnce ==
    closes <= 1 /\ freed <= 1

====
